---- MODULE Spec2Model ----
(***************************************************************************)
(* Model of the mcp-bitbucket tool handlers (src/src/index.ts): one tool   *)
(* invocation at a time, each await of a remote fetch being one step whose *)
(* outcome (2xx, non-2xx, transport error) the remote service chooses.     *)
(* Spec is the server of list_pull_requests, get_pr_details and            *)
(* list_pipelines; SpecPrevious is the server of add_pr_comment and of the *)
(* tools only the previous revision registers (src/unnamed/part_000),      *)
(* get_pr_comments and get_pr_with_diff, against the remote comment store. *)
(***************************************************************************)
EXTENDS Integers, Sequences, FiniteSets, TLC

VARIABLES
    tool,        \* the tool being served, "none" between invocations
    args,        \* the arguments of the invocation (optional ones as 0/1-tuples)
    pc,          \* the await the handler is suspended at
    fetches,     \* the remote requests issued by this invocation, in issue order
    pr,          \* get_pr_details: `pr`
    commitsData, \* get_pr_details: `commitsData.values`
    commits,     \* get_pr_details: `commits`
    data,        \* list_*: `data.values`
    pipelines,   \* list_pipelines: the result slots of Promise.all
    completed,   \* list_pipelines: indexes of the callbacks in completion order
    result,      \* the value the handler returned
    remote,      \* the comments the remote service holds, in creation order
    created      \* the comments add_pr_comment has reported as created

vars == <<tool, args, pc, fetches, pr, commitsData, commits, data, pipelines,
          completed, result, remote, created>>

----------------------------------------------------------------------------
(* Bounds of the model *)

MaxCommits == 2
MaxPipelines == 2
MaxMsgLen == 3
MaxComments == 2

----------------------------------------------------------------------------
(* Optional values: undefined is <<>>, a supplied value v is <<v>> *)

Undefined == <<>>
Some(v) == <<v>>
Opt(S) == {Undefined} \cup {Some(v) : v \in S}

\* JavaScript truthiness of an optional string / number
TruthyStr(o) == o # Undefined /\ o[1] # ""
TruthyNum(o) == o # Undefined /\ o[1] # 0

NoArgs == [source_branch |-> Undefined, pr_id |-> Undefined,
           include_diff |-> Undefined, state |-> Undefined,
           limit |-> Undefined, page |-> Undefined,
           target_branch |-> Undefined, content |-> Undefined]

\* null; like undefined it is told from every value <<v>> and every text
Null == <<>>

NoResult == [kind |-> "none"]
NoPr == [id |-> 0]

\* A result carries the error flag only when the handler set isError: true
IsError(r) == "isError" \in DOMAIN r /\ r.isError

----------------------------------------------------------------------------
(* The remote service *)

\* How a fetch ends: a 2xx response, a non-2xx response with its status, or a
\* rejected promise (transport error, or a body that cannot be read)
HttpErrors == {404, 500}
Ok == [kind |-> "ok", status |-> 200]
Throw == [kind |-> "throw", status |-> 0]
Http(status) == [kind |-> "http", status |-> status]
Failures == {Throw} \cup {Http(status) : status \in HttpErrors}
Outcomes == {Ok} \cup Failures

\* A request the remote never answers: its promise stays pending for ever
Never == [kind |-> "never", status |-> 0]

RemotePr(id, branch) ==
    [id |-> id, source_branch |-> branch, destination_branch |-> "main"]

\* A pull request the remote sends without pr.source.branch.name ("noName")
\* or without pr.source.branch ("noBranch")
MalformedShapes == {"noName", "noBranch"}
MalformedPr(id, shape) ==
    [id |-> id, destination_branch |-> "main", malformed |-> shape]

\* pr.source.branch is an object: reading its name does not throw
HasBranch(p) == ~("malformed" \in DOMAIN p /\ p.malformed = "noBranch")

\* What a fetch of the pull request by id can deliver
PrsById(id) ==
    {RemotePr(id, "feature")} \cup {MalformedPr(id, shape) : shape \in MalformedShapes}

\* The TypeError of reading a property of undefined
TypeError == <<"Cannot read properties of undefined">>

\* Sequences without repetition of at most n elements of S
Range(s) == {s[i] : i \in DOMAIN s}

RECURSIVE DistinctSeqs(_, _)
DistinctSeqs(S, n) ==
    IF n = 0 THEN {<<>>}
    ELSE LET shorter == DistinctSeqs(S, n - 1)
         IN  shorter \cup
             {Append(p[1], p[2]) :
                 p \in {q \in shorter \X S : q[2] \notin Range(q[1])}}

Hashes == {<<"hash", i>> : i \in 1..MaxCommits}
RemoteCommit(h) == [hash |-> h, message |-> <<"message of", h>>]
DiffText(h) == <<"diff --git", h>>
CommitLists ==
    {[i \in DOMAIN hs |-> RemoteCommit(hs[i])] : hs \in DistinctSeqs(Hashes, MaxCommits)}

\* What a branch search can return: the remote's own ordering of the matches
SearchResults(branch) ==
    {<<>>, <<RemotePr(7, branch)>>,
     <<RemotePr(7, branch), RemotePr(8, branch)>>,
     <<RemotePr(8, branch), RemotePr(7, branch)>>}

----------------------------------------------------------------------------
(* The log of remote requests *)

Request(kind, key) ==
    [kind |-> kind, key |-> key, outcome |-> "pending", status |-> 0]
Issue(log, kind, key) == Append(log, Request(kind, key))

\* Mutation: a request that failed is sent again
SettleWithRetry(log, k, outcome) ==
    LET settled == [log EXCEPT ![k].outcome = outcome.kind,
                               ![k].status = outcome.status]
    IN  IF outcome.kind = "ok" THEN settled
        ELSE Append(settled, Request(log[k].kind, log[k].key))

\* The k-th request ended: the log keeps how, and the status of the response
Settle(log, k, outcome) ==
    [log EXCEPT ![k].outcome = outcome.kind, ![k].status = outcome.status]

\* Mutation: the Error of a non-2xx response does not carry the status
ApiErrorNoStatus(status) == <<"Bitbucket API error: ">>

\* The Error a failed fetch makes the handler see
ApiError(status) == <<"Bitbucket API error: ", status>>
FetchFailed == <<"fetch failed">>

\* catch (error) { return { content: [...], isError: true } }
CatchResult(prefix, error) ==
    [kind |-> "text", text |-> <<prefix, error>>, isError |-> TRUE]

----------------------------------------------------------------------------
(* get_pr_details *)

MissingSelectorResult ==
    [kind |-> "text",
     text |-> <<"Either source_branch or pr_id must be provided">>,
     isError |-> TRUE]

\* Mutation: the empty search is reported with the error flag
NotFoundAsError(source_branch) ==
    [kind |-> "text",
     text |-> <<"No pull request found for source branch: ", source_branch>>,
     isError |-> TRUE]

NotFoundResult(source_branch) ==
    [kind |-> "text",
     text |-> <<"No pull request found for source branch: ", source_branch>>]

ShouldIncludeDiff(include_diff) == include_diff = Some(TRUE)

\* Mutation: the last match of the search is taken
SelectLastPr(values) == values[Len(values)]

\* Line 227: pr = searchData.values[0]
SelectPr(values) == values[1]

\* Mutation: the diff field is assigned whether or not diffs were requested
CommitDataAlwaysDiff(commit, shouldIncludeDiff, diff) ==
    [hash |-> commit.hash, message |-> commit.message, diff |-> diff]

\* The record pushed for one commit; diff is Null or a text
CommitData(commit, shouldIncludeDiff, diff) ==
    IF shouldIncludeDiff
    THEN [hash |-> commit.hash, message |-> commit.message, diff |-> diff]
    ELSE [hash |-> commit.hash, message |-> commit.message]

\* Mutation: the else branch of line 261 is missing, a non-2xx diff stays null
CommitDiffNoElse(commit, outcome) ==
    CASE outcome.kind = "ok"    -> DiffText(commit.hash)
      [] outcome.kind = "http"  -> Null
      [] outcome.kind = "throw" -> <<"Error fetching diff: ", FetchFailed>>

\* The value of `diff` after the try/catch around one commit's diff fetch
CommitDiff(commit, outcome) ==
    CASE outcome.kind = "ok"    -> DiffText(commit.hash)
      [] outcome.kind = "http"  -> <<"Error fetching diff: ", outcome.status>>
      [] outcome.kind = "throw" -> <<"Error fetching diff: ", FetchFailed>>

CommitsPlaceholder(status) == <<"Error fetching commits: ", status>>

\* Lines 289-300 as serialised: a property whose value is undefined is left
\* out by JSON.stringify
PrRecord(p) ==
    IF "source_branch" \in DOMAIN p
    THEN [id |-> p.id,
          source_branch |-> p.source_branch,
          destination_branch |-> p.destination_branch]
    ELSE [id |-> p.id, destination_branch |-> p.destination_branch]

PrError(error) == CatchResult("Error fetching PR with diff: ", error)

\* Lines 288-336: the record is built and returned, or building it throws
PrDetailsResult(a, p, cs) ==
    IF ~HasBranch(p) THEN PrError(TypeError)
    ELSE [kind |-> "json",
          search_method |-> IF TruthyNum(a.pr_id)
                            THEN <<"pr_id: ", a.pr_id[1]>>
                            ELSE <<"source_branch: ", a.source_branch[1]>>,
          pull_request |-> PrRecord(p) @@ [commits |-> cs]]

get_pr_details(source_branch, pr_id, include_diff) ==
    /\ pc = "idle"
    /\ tool' = "get_pr_details"
    /\ args' = [NoArgs EXCEPT !.source_branch = source_branch,
                              !.pr_id = pr_id,
                              !.include_diff = include_diff]
    /\ IF ~TruthyStr(source_branch) /\ ~TruthyNum(pr_id)
       THEN /\ result' = MissingSelectorResult
            /\ pc' = "done"
            /\ fetches' = fetches
       ELSE /\ result' = result
            /\ IF TruthyNum(pr_id)
               THEN /\ fetches' = Issue(fetches, "pr_by_id", <<pr_id[1]>>)
                    /\ pc' = "await_pr"
               ELSE /\ fetches' = Issue(fetches, "search", <<source_branch[1]>>)
                    /\ pc' = "await_search"
    /\ UNCHANGED <<pr, commitsData, commits, data, pipelines,
                 completed, remote, created>>

\* The Error thrown for a failed primary fetch
ErrorOf(outcome) ==
    IF outcome.kind = "http" THEN ApiError(outcome.status) ELSE FetchFailed

\* The error escapes the handler: it ends with no result
PrThrowUncaught(outcome) ==
    /\ result' = result
    /\ pc' = "done"
    /\ fetches' = Settle(fetches, Len(fetches), outcome)

\* The handler stops with the outer catch's result
PrThrow(outcome) ==
    /\ result' = PrError(ErrorOf(outcome))
    /\ pc' = "done"
    /\ fetches' = Settle(fetches, Len(fetches), outcome)

\* Lines 230-238: the commit list of the resolved pull request is requested
FetchCommits(p, outcome) ==
    /\ pr' = p
    /\ fetches' = Issue(Settle(fetches, Len(fetches), outcome), "commits", <<p.id>>)
    /\ pc' = "await_commits"
    /\ result' = result

PrResponse ==
    /\ pc = "await_pr"
    /\ \/ /\ \E p \in PrsById(args.pr_id[1]) : FetchCommits(p, Ok)
          /\ UNCHANGED data
       \/ /\ \E outcome \in Failures : PrThrow(outcome)
          /\ UNCHANGED <<pr, data>>
    /\ UNCHANGED <<tool, args, commitsData, commits, pipelines,
                 completed, remote, created>>

SearchResponse ==
    /\ pc = "await_search"
    /\ \/ \E values \in SearchResults(args.source_branch[1]) :
             /\ data' = values
             /\ IF Len(values) = 0
                THEN /\ result' = NotFoundResult(args.source_branch[1])
                     /\ pc' = "done"
                     /\ fetches' = Settle(fetches, Len(fetches), Ok)
                     /\ pr' = pr
                ELSE FetchCommits(SelectPr(values), Ok)
       \/ /\ \E outcome \in Failures : PrThrow(outcome)
          /\ UNCHANGED <<pr, data>>
    /\ UNCHANGED <<tool, args, commitsData, commits, pipelines,
                 completed, remote, created>>

\* The for loop from its i-th iteration up to its next await (or the return)
LoopFrom(values, cs, log) ==
    IF ShouldIncludeDiff(args.include_diff) /\ Len(cs) < Len(values)
    THEN /\ commits' = cs
         /\ fetches' = Issue(log, "diff", <<values[Len(cs) + 1].hash>>)
         /\ pc' = "await_diff"
         /\ result' = result
    ELSE LET all == cs \o [i \in 1..(Len(values) - Len(cs)) |->
                              CommitData(values[Len(cs) + i], FALSE, Null)]
         IN  /\ commits' = all
             /\ fetches' = log
             /\ pc' = "done"
             /\ result' = PrDetailsResult(args, pr, all)

CommitsResponse ==
    /\ pc = "await_commits"
    /\ \/ \E values \in CommitLists :
             /\ commitsData' = values
             /\ LoopFrom(values, <<>>, Settle(fetches, Len(fetches), Ok))
       \/ \E status \in HttpErrors :
             /\ commits' = <<CommitsPlaceholder(status)>>
             /\ result' = PrDetailsResult(args, pr, commits')
             /\ pc' = "done"
             /\ fetches' = Settle(fetches, Len(fetches), Http(status))
             /\ UNCHANGED commitsData
       \/ /\ PrThrow(Throw)
          /\ UNCHANGED <<commitsData, commits>>
    /\ UNCHANGED <<tool, args, pr, data, pipelines, completed, remote, created>>

DiffResponse ==
    /\ pc = "await_diff"
    /\ fetches[Len(fetches)].outcome = "pending"
    /\ LET commit == commitsData[Len(commits) + 1]
       IN  \E outcome \in Outcomes :
             LoopFrom(commitsData,
                      Append(commits,
                             CommitData(commit, TRUE, CommitDiff(commit, outcome))),
                      Settle(fetches, Len(fetches), outcome))
    /\ UNCHANGED <<tool, args, pr, commitsData, data, pipelines,
                 completed, remote, created>>

\* The remote never answers the diff request the loop awaits. The handler sets
\* no timer and passes no abort signal to fetch, so it stays at this await.
DiffNeverCompletes ==
    /\ pc = "await_diff"
    /\ fetches[Len(fetches)].outcome = "pending"
    /\ fetches' = Settle(fetches, Len(fetches), Never)
    /\ UNCHANGED <<tool, args, pc, pr, commitsData, commits, data, pipelines,
                   completed, result, remote, created>>

----------------------------------------------------------------------------
(* The argument schemas the server validates before it calls a handler *)

MinLimit == 1
MaxLimit == 100
MinPage == 1
DefaultPrLimit == 50
DefaultPipelineLimit == 10

\* Mutation: the schema lacks .min(1)
LimitSchemaNoMin(limit) == limit = Undefined \/ limit[1] <= MaxLimit

\* z.number().min(1).max(100).optional()
LimitSchema(limit) ==
    limit = Undefined \/ (limit[1] >= MinLimit /\ limit[1] <= MaxLimit)

\* z.number().min(1).optional()
PageSchema(page) == page = Undefined \/ page[1] >= MinPage

\* What the caller gets when the arguments fail the schema: the handler is not run
InvalidParamsResult == [kind |-> "invalid_params", isError |-> TRUE]

\* `x || d` on an optional number and on an optional string
OrDefault(x, d) == IF TruthyNum(x) THEN x[1] ELSE d
OrDefaultStr(x, d) == IF TruthyStr(x) THEN x[1] ELSE d

ListArgs(state, limit, page, target_branch) ==
    [NoArgs EXCEPT !.state = state, !.limit = limit, !.page = page,
                   !.target_branch = target_branch]

----------------------------------------------------------------------------
(* list_pull_requests *)

PullRequestPages ==
    {<<>>, <<RemotePr(7, "feature")>>,
     <<RemotePr(8, "hotfix"), RemotePr(7, "feature")>>}
    \cup {<<RemotePr(8, "hotfix"), MalformedPr(7, shape)>> : shape \in MalformedShapes}

\* Lines 93-138: the page is mapped and returned, or mapping a record throws
PullRequestsResult(values, pageNum, prLimit) ==
    IF \E i \in DOMAIN values : ~HasBranch(values[i])
    THEN CatchResult("Error fetching pull requests: ", TypeError)
    ELSE [kind |-> "json",
          total_count |-> Len(values),
          page |-> pageNum,
          page_length |-> prLimit,
          pull_requests |-> [i \in DOMAIN values |-> PrRecord(values[i])]]

list_pull_requests(state, limit, page, target_branch) ==
    /\ pc = "idle"
    /\ tool' = "list_pull_requests"
    /\ args' = ListArgs(state, limit, page, target_branch)
    /\ IF ~(LimitSchema(limit) /\ PageSchema(page))
       THEN /\ result' = InvalidParamsResult
            /\ pc' = "done"
            /\ fetches' = fetches
       ELSE /\ fetches' = Issue(fetches, "list_prs",
                                [state |-> OrDefaultStr(state, "OPEN"),
                                 pagelen |-> OrDefault(limit, DefaultPrLimit),
                                 page |-> OrDefault(page, MinPage),
                                 target_branch |-> target_branch])
            /\ pc' = "await_prs"
            /\ result' = result
    /\ UNCHANGED <<pr, commitsData, commits, data, pipelines,
                 completed, remote, created>>

PullRequestsResponse ==
    /\ pc = "await_prs"
    /\ \/ \E values \in PullRequestPages :
             /\ data' = values
             /\ result' = PullRequestsResult(values, fetches[1].key.page,
                                             fetches[1].key.pagelen)
             /\ pc' = "done"
             /\ fetches' = Settle(fetches, Len(fetches), Ok)
       \/ \E outcome \in Failures :
             /\ result' = CatchResult("Error fetching pull requests: ", ErrorOf(outcome))
             /\ pc' = "done"
             /\ fetches' = Settle(fetches, Len(fetches), outcome)
             /\ data' = data
    /\ UNCHANGED <<tool, args, pr, commitsData, commits, pipelines,
                 completed, remote, created>>

----------------------------------------------------------------------------
(* Commit messages, as sequences of characters, and the /#(\d+)/ heuristic *)

DigitChars == <<"0", "1", "2", "3", "4", "5", "6", "7", "8", "9">>
Digits == Range(DigitChars)
DigitValue(c) == (CHOOSE i \in DOMAIN DigitChars : DigitChars[i] = c) - 1

\* \d+ at position i: the longest run of digits starting there (greedy)
RECURSIVE DigitRun(_, _)
DigitRun(message, i) ==
    IF i <= Len(message) /\ message[i] \in Digits
    THEN <<message[i]>> \o DigitRun(message, i + 1)
    ELSE <<>>

\* Mutation: the rightmost match is taken instead of the leftmost
RECURSIVE MatchLast(_, _)
MatchLast(message, i) ==
    IF i > Len(message) THEN Null
    ELSE LET later == MatchLast(message, i + 1)
         IN  IF later # Null THEN later
             ELSE IF message[i] = "#" /\ DigitRun(message, i + 1) # <<>>
                  THEN DigitRun(message, i + 1)
                  ELSE Null

\* message.match(/#(\d+)/): group 1 of the leftmost match from i on, or Null
RECURSIVE Match(_, _)
Match(message, i) ==
    IF i > Len(message) THEN Null
    ELSE IF message[i] = "#" /\ DigitRun(message, i + 1) # <<>>
         THEN DigitRun(message, i + 1)
         ELSE Match(message, i + 1)

\* parseInt on a string of decimal digits
RECURSIVE ParseInt(_)
ParseInt(digits) ==
    IF digits = <<>> THEN 0
    ELSE 10 * ParseInt(SubSeq(digits, 1, Len(digits) - 1))
         + DigitValue(digits[Len(digits)])

TruthyMessage(m) == m # Undefined /\ m[1] # <<>>

\* Lines 517-518; commitMessage is an optional message
ExtractPrId(commitMessage) ==
    IF commitMessage = Undefined THEN Null
    ELSE LET prIdMatch == Match(commitMessage[1], 1)
         IN  IF prIdMatch # Null THEN <<ParseInt(prIdMatch)>> ELSE Null

----------------------------------------------------------------------------
(* list_pipelines *)

Alphabet == {"#", "1", "2", "a"}

RECURSIVE Strings(_)
Strings(n) ==
    IF n = 0 THEN {<<>>}
    ELSE LET shorter == Strings(n - 1)
         IN  shorter \cup {Append(s, c) : s \in shorter, c \in Alphabet}

Messages == Strings(MaxMsgLen)

SampleMessages ==
    {<<>>,
     <<"F", "i", "x", " ", "#", "4", "2">>,
     <<"#", "7", " ", "#", "1", "2", " ", "b">>}

\* A pipeline of the remote page: the triggering commit's hash and message
Payloads(messages) ==
    [hash : Opt({"e5f6"}), message : Opt(messages)]

RemotePipeline(i, payload) ==
    [run_number |-> i, target |-> payload]

\* Pages of one pipeline over every message, longer pages over the samples
PipelinePages ==
    {<<>>}
    \cup {<<RemotePipeline(1, p)>> : p \in Payloads(Messages \cup SampleMessages)}
    \cup {[i \in DOMAIN ps |-> RemotePipeline(i, ps[i])] :
            ps \in UNION {[1..n -> Payloads(SampleMessages)] : n \in 2..MaxPipelines}}

MessagesOf(values) ==
    IF Len(values) = 1 THEN Messages \cup SampleMessages ELSE SampleMessages

Pending(request) == [state |-> "pending", request |-> request]
IsPending(slot) == "state" \in DOMAIN slot

\* Lines 516-532: the value one callback resolves to
PipelineOutput(pipeline, commitMessage) ==
    [pr_id |-> ExtractPrId(commitMessage),
     run_number |-> pipeline.run_number,
     target |-> pipeline.target]

\* Line 493
NeedsLookup(pipeline) ==
    /\ ~TruthyMessage(pipeline.target.message)
    /\ TruthyStr(pipeline.target.hash)

\* History: the callback of pipeline i returned, after a lookup that ended
\* `lookup` ("none" when it issued no lookup) and delivered `message`
Completion(i, lookup, message) ==
    [index |-> i, lookup |-> lookup, message |-> message]

\* Mutation: results are collected in completion order (first free slot)
FulfilFirstFree(slots, i, value) ==
    LET free == CHOOSE j \in DOMAIN slots :
                   /\ "state" \in DOMAIN slots[j]
                   /\ \A k \in 1..(j - 1) : "state" \notin DOMAIN slots[k]
    IN  IF free = i THEN [slots EXCEPT ![i] = value]
        ELSE [slots EXCEPT ![free] = value, ![i] = slots[free]]

\* Promise.all stores the value of the i-th promise at index i
Fulfil(slots, i, value) == [slots EXCEPT ![i] = value]

\* data.values.map(async ...): every callback runs up to its first await
RECURSIVE StartCallbacks(_, _, _)
StartCallbacks(values, i, st) ==
    IF i > Len(values) THEN st
    ELSE LET pipeline == values[i]
         IN  IF NeedsLookup(pipeline)
             THEN StartCallbacks(values, i + 1,
                    [log |-> Issue(st.log, "commit", <<pipeline.target.hash[1]>>),
                     slots |-> Append(st.slots, Pending(Len(st.log) + 1)),
                     order |-> st.order])
             ELSE StartCallbacks(values, i + 1,
                    [log |-> st.log,
                     slots |-> Append(st.slots,
                                 PipelineOutput(pipeline, pipeline.target.message)),
                     order |-> Append(st.order, Completion(i, "none", Undefined))])

PipelinesResult(values, slots, pageNum, pipelineLimit) ==
    [kind |-> "json",
     total_count |-> Len(values),
     page |-> pageNum,
     page_length |-> pipelineLimit,
     pipelines |-> slots]

list_pipelines(state, limit, page, target_branch) ==
    /\ pc = "idle"
    /\ tool' = "list_pipelines"
    /\ args' = ListArgs(state, limit, page, target_branch)
    /\ IF ~(LimitSchema(limit) /\ PageSchema(page))
       THEN /\ result' = InvalidParamsResult
            /\ pc' = "done"
            /\ fetches' = fetches
       ELSE /\ fetches' = Issue(fetches, "list_pipelines",
                                [state |-> state,
                                 pagelen |-> OrDefault(limit, DefaultPipelineLimit),
                                 page |-> OrDefault(page, MinPage),
                                 target_branch |-> target_branch])
            /\ pc' = "await_pipelines"
            /\ result' = result
    /\ UNCHANGED <<pr, commitsData, commits, data, pipelines,
                 completed, remote, created>>

PipelinesResponse ==
    /\ pc = "await_pipelines"
    /\ \/ \E values \in PipelinePages :
             LET st == StartCallbacks(values, 1,
                         [log |-> Settle(fetches, Len(fetches), Ok),
                          slots |-> <<>>, order |-> <<>>])
             IN  /\ data' = values
                 /\ fetches' = st.log
                 /\ pipelines' = st.slots
                 /\ completed' = st.order
                 /\ pc' = "await_all"
                 /\ result' = result
       \/ \E outcome \in Failures :
             /\ result' = CatchResult("Error fetching pipelines: ", ErrorOf(outcome))
             /\ pc' = "done"
             /\ fetches' = Settle(fetches, Len(fetches), outcome)
             /\ UNCHANGED <<data, pipelines, completed>>
    /\ UNCHANGED <<tool, args, pr, commitsData, commits, remote, created>>

\* Lines 503-510: the lookup succeeded; the message it delivered is stored in
\* the pipeline's target and used for the heuristic
LookupSucceeded(i, message) ==
    LET pipeline == [data[i] EXCEPT !.target.message = message]
    IN  /\ pipelines' = Fulfil(pipelines, i, PipelineOutput(pipeline, message))
        /\ UNCHANGED <<pc, result>>

\* Mutation: no try/catch, a failed lookup rejects Promise.all and reaches the
\* handler's catch
LookupRethrows(i, outcome) ==
    /\ pipelines' = pipelines
    /\ pc' = "done"
    /\ result' = CatchResult("Error fetching pipelines: ", ErrorOf(outcome))

\* Lines 503, 511-513: a non-2xx lookup is skipped and a rejected one is caught;
\* the callback goes on with the message of the payload
LookupFailed(i, outcome) ==
    /\ pipelines' = Fulfil(pipelines, i,
                           PipelineOutput(data[i], data[i].target.message))
    /\ UNCHANGED <<pc, result>>

\* The lookup of the i-th pipeline ends and its callback runs to its return
LookupResponse(i) ==
    /\ pc = "await_all"
    /\ IsPending(pipelines[i])
    /\ \/ \E message \in Opt(MessagesOf(data)) :
             /\ LookupSucceeded(i, message)
             /\ fetches' = Settle(fetches, pipelines[i].request, Ok)
             /\ completed' = Append(completed, Completion(i, "ok", message))
       \/ \E outcome \in Failures :
             /\ LookupFailed(i, outcome)
             /\ fetches' = Settle(fetches, pipelines[i].request, outcome)
             /\ completed' = Append(completed, Completion(i, outcome.kind, Undefined))
    /\ UNCHANGED <<tool, args, pr, commitsData, commits, data, remote, created>>

\* await Promise.all(...) resumes once every callback has returned
PipelinesReturn ==
    /\ pc = "await_all"
    /\ \A i \in DOMAIN pipelines : ~IsPending(pipelines[i])
    /\ result' = PipelinesResult(data, pipelines, fetches[1].key.page,
                                 fetches[1].key.pagelen)
    /\ pc' = "done"
    /\ UNCHANGED <<tool, args, fetches, pr, commitsData, commits, data,
                   pipelines, completed, remote, created>>

----------------------------------------------------------------------------
(* add_pr_comment, which the current and the previous revision of index.ts
   register alike *)

\* The account the server authenticates as, and another user of the remote
Account == "alice"
OtherUser == "bob"

\* The type tag the remote service puts on a comment record
RemoteTypes == {"general", "pullrequest_comment"}

\* The bodies of the remote's non-2xx answers
ErrorBodies == {"", "forbidden"}

\* What the remote stores for a POST of commentData to a pull request
RemoteComment(id, pr_id, commentData, type) ==
    [id |-> id, pr_id |-> pr_id, content |-> commentData.content.raw,
     author |-> Account, type |-> type, inline |-> Null]

\* A non-2xx answer is logged with the body it came with
SettleWithBody(log, k, outcome, body) ==
    [log EXCEPT ![k] = [kind |-> @.kind, key |-> @.key, outcome |-> outcome.kind,
                        status |-> outcome.status, body |-> body]]

\* The message of the Error thrown for a non-2xx answer to the POST
CommentApiErrorNoBody(status, errorText) ==
    <<"Bitbucket API error: ", status, " - ">>

CommentApiError(status, errorText) ==
    <<"Bitbucket API error: ", status, " - ", errorText>>

CommentError(error) == CatchResult("Error adding PR comment: ", error)

\* commentDetails, from the remote's answer
CommentDetails(responseData) ==
    [id |-> responseData.id,
     content |-> responseData.content,
     author |-> responseData.author,
     type |-> responseData.type]

CommentAddedResult(pr_id, responseData) ==
    [kind |-> "json",
     pull_request_id |-> pr_id,
     message |-> "Comment added successfully to pull request",
     comment |-> CommentDetails(responseData)]

add_pr_comment(pr_id, content) ==
    /\ pc = "idle"
    /\ tool' = "add_pr_comment"
    /\ args' = [NoArgs EXCEPT !.pr_id = Some(pr_id), !.content = Some(content)]
    /\ fetches' = Issue(fetches, "post_comment",
                        [pr_id |-> pr_id, content |-> [raw |-> content]])
    /\ pc' = "await_post"
    /\ UNCHANGED <<pr, commitsData, commits, data, pipelines, completed, result,
                   remote, created>>

\* The remote answers the POST: it stores the comment and reports it, or
\* refuses with a status and a body, or the request fails in transport
CommentPostResponse ==
    /\ pc = "await_post"
    /\ LET request == fetches[Len(fetches)].key
       IN  \/ /\ Len(remote) < MaxComments
              /\ \E type \in RemoteTypes :
                    LET responseData == RemoteComment(Len(remote) + 1, request.pr_id,
                                                      request, type)
                    IN  /\ remote' = Append(remote, responseData)
                        /\ result' = CommentAddedResult(args.pr_id[1], responseData)
                        /\ created' = Append(created,
                                             [pr_id |-> args.pr_id[1],
                                              submitted |-> args.content[1],
                                              comment |-> result'.comment])
              /\ fetches' = Settle(fetches, Len(fetches), Ok)
           \/ /\ \E status \in HttpErrors, errorText \in ErrorBodies :
                    /\ result' = CommentError(CommentApiError(status, errorText))
                    /\ fetches' = SettleWithBody(fetches, Len(fetches),
                                                 Http(status), errorText)
              /\ UNCHANGED <<remote, created>>
           \/ /\ result' = CommentError(FetchFailed)
              /\ fetches' = Settle(fetches, Len(fetches), Throw)
              /\ UNCHANGED <<remote, created>>
    /\ pc' = "done"
    /\ UNCHANGED <<tool, args, pr, commitsData, commits, data, pipelines, completed>>

----------------------------------------------------------------------------
(* The tools of the previous revision of index.ts (src/unnamed/part_000) that
   the current one no longer registers: get_pr_comments and get_pr_with_diff *)

DefaultCommentLimit == 50

\* An inline comment another user has left on pull request 7
InlineComment(id) ==
    [id |-> id, pr_id |-> 7, content |-> "nit", author |-> OtherUser,
     type |-> "pullrequest_comment",
     inline |-> Some([from |-> 3, to |-> 4, path |-> "src/a.ts"])]

\* What the remote may hold when the server starts
InitialStores == {<<>>, <<InlineComment(1)>>}

\* The first page of the comments of a pull request
CommentsPage(store, pr_id, pagelen) ==
    LET all == SelectSeq(store, LAMBDA c : c.pr_id = pr_id)
    IN  SubSeq(all, 1, IF pagelen < Len(all) THEN pagelen ELSE Len(all))

\* comment.inline ? {from, to, path} : a zero-valued anchor
InlineAnchorAlways(comment) ==
    IF comment.inline # Null
    THEN Some([from |-> comment.inline[1].from, to |-> comment.inline[1].to,
               path |-> comment.inline[1].path])
    ELSE Some([from |-> 0, to |-> 0, path |-> ""])

\* comment.inline ? {from, to, path} : null
InlineAnchor(comment) ==
    IF comment.inline # Null
    THEN Some([from |-> comment.inline[1].from, to |-> comment.inline[1].to,
               path |-> comment.inline[1].path])
    ELSE Null

CommentOutput(comment) ==
    [id |-> comment.id, content |-> comment.content, author |-> comment.author,
     type |-> comment.type, inline |-> InlineAnchor(comment)]

CommentsResult(pr_id, size, values) ==
    [kind |-> "json",
     pull_request_id |-> pr_id,
     total_count |-> size,
     comments |-> [i \in DOMAIN values |-> CommentOutput(values[i])]]

get_pr_comments(pr_id, limit) ==
    /\ pc = "idle"
    /\ tool' = "get_pr_comments"
    /\ args' = [NoArgs EXCEPT !.pr_id = Some(pr_id), !.limit = limit]
    /\ IF ~LimitSchema(limit)
       THEN /\ result' = InvalidParamsResult
            /\ pc' = "done"
            /\ fetches' = fetches
       ELSE /\ fetches' = Issue(fetches, "list_comments",
                                [pr_id |-> pr_id,
                                 pagelen |-> OrDefault(limit, DefaultCommentLimit)])
            /\ pc' = "await_comments"
            /\ result' = result
    /\ UNCHANGED <<pr, commitsData, commits, data, pipelines, completed,
                   remote, created>>

CommentsResponse ==
    /\ pc = "await_comments"
    /\ \/ LET request == fetches[Len(fetches)].key
              values == CommentsPage(remote, request.pr_id, request.pagelen)
          IN  /\ data' = values
              /\ result' = CommentsResult(args.pr_id[1],
                               Len(CommentsPage(remote, request.pr_id, Len(remote))),
                               values)
              /\ fetches' = Settle(fetches, Len(fetches), Ok)
       \/ \E outcome \in Failures :
             /\ result' = CatchResult("Error fetching PR comments: ", ErrorOf(outcome))
             /\ fetches' = Settle(fetches, Len(fetches), outcome)
             /\ data' = data
    /\ pc' = "done"
    /\ UNCHANGED <<tool, args, pr, commitsData, commits, pipelines, completed,
                   remote, created>>

\* include_diff !== false
IncludeDiff(include_diff) == include_diff # Some(FALSE)

WholeDiffText(id) == <<"diff of pull request ", id>>
WholeDiffError(status) == <<"Error fetching diff: ", status>>

PrWithDiffResult(a, p, diffContent) ==
    IF ~HasBranch(p) THEN PrError(TypeError)
    ELSE [kind |-> "json",
          search_method |-> IF TruthyNum(a.pr_id)
                            THEN <<"pr_id: ", a.pr_id[1]>>
                            ELSE <<"source_branch: ", a.source_branch[1]>>,
          pull_request |-> PrRecord(p) @@ [diff |-> diffContent]]

get_pr_with_diff(source_branch, pr_id, include_diff) ==
    /\ pc = "idle"
    /\ tool' = "get_pr_with_diff"
    /\ args' = [NoArgs EXCEPT !.source_branch = source_branch,
                              !.pr_id = pr_id,
                              !.include_diff = include_diff]
    /\ IF ~TruthyStr(source_branch) /\ ~TruthyNum(pr_id)
       THEN /\ result' = MissingSelectorResult
            /\ pc' = "done"
            /\ fetches' = fetches
       ELSE /\ result' = result
            /\ IF TruthyNum(pr_id)
               THEN /\ fetches' = Issue(fetches, "pr_by_id", <<pr_id[1]>>)
                    /\ pc' = "await_pr_by_id"
               ELSE /\ fetches' = Issue(fetches, "search", <<source_branch[1]>>)
                    /\ pc' = "await_pr_search"
    /\ UNCHANGED <<pr, commitsData, commits, data, pipelines, completed,
                   remote, created>>

\* The pull request is resolved: its diff is requested, or it is returned
FetchWholeDiff(p, log) ==
    /\ pr' = p
    /\ IF IncludeDiff(args.include_diff)
       THEN /\ fetches' = Issue(log, "pr_diff", <<p.id>>)
            /\ pc' = "await_pr_diff"
            /\ result' = result
       ELSE /\ fetches' = log
            /\ pc' = "done"
            /\ result' = PrWithDiffResult(args, p, Null)

PrByIdResponse ==
    /\ pc = "await_pr_by_id"
    /\ \/ \E p \in PrsById(args.pr_id[1]) :
             FetchWholeDiff(p, Settle(fetches, Len(fetches), Ok))
       \/ /\ \E outcome \in Failures : PrThrow(outcome)
          /\ pr' = pr
    /\ UNCHANGED <<tool, args, commitsData, commits, data, pipelines, completed,
                   remote, created>>

PrSearchResponse ==
    /\ pc = "await_pr_search"
    /\ \/ \E values \in SearchResults(args.source_branch[1]) :
             /\ data' = values
             /\ IF Len(values) = 0
                THEN /\ result' = NotFoundResult(args.source_branch[1])
                     /\ pc' = "done"
                     /\ fetches' = Settle(fetches, Len(fetches), Ok)
                     /\ pr' = pr
                ELSE FetchWholeDiff(SelectPr(values),
                                    Settle(fetches, Len(fetches), Ok))
       \/ /\ \E outcome \in Failures : PrThrow(outcome)
          /\ UNCHANGED <<pr, data>>
    /\ UNCHANGED <<tool, args, commitsData, commits, pipelines, completed,
                   remote, created>>

WholeDiffResponse ==
    /\ pc = "await_pr_diff"
    /\ \/ /\ result' = PrWithDiffResult(args, pr, WholeDiffText(pr.id))
          /\ pc' = "done"
          /\ fetches' = Settle(fetches, Len(fetches), Ok)
       \/ \E status \in HttpErrors :
             /\ result' = PrWithDiffResult(args, pr, WholeDiffError(status))
             /\ pc' = "done"
             /\ fetches' = Settle(fetches, Len(fetches), Http(status))
       \/ PrThrow(Throw)
    /\ UNCHANGED <<tool, args, pr, commitsData, commits, data, pipelines,
                   completed, remote, created>>

----------------------------------------------------------------------------

Init ==
    /\ tool = "none"
    /\ args = NoArgs
    /\ pc = "idle"
    /\ fetches = <<>>
    /\ pr = NoPr
    /\ commitsData = <<>>
    /\ commits = <<>>
    /\ data = <<>>
    /\ pipelines = <<>>
    /\ completed = <<>>
    /\ result = NoResult
    /\ remote = <<>>
    /\ created = <<>>

\* The result has been returned; the server waits for the next invocation
Return ==
    /\ pc = "done"
    /\ tool' = "none"
    /\ args' = NoArgs
    /\ pc' = "idle"
    /\ fetches' = <<>>
    /\ pr' = NoPr
    /\ commitsData' = <<>>
    /\ commits' = <<>>
    /\ data' = <<>>
    /\ pipelines' = <<>>
    /\ completed' = <<>>
    /\ result' = NoResult
    /\ UNCHANGED <<remote, created>>

Branches == {"", "feature"}
PrIds == {0, 7}
States == {"MERGED"}
PipelineStates == {"FAILED"}
Limits == {MinLimit - 1, MinLimit, MaxLimit, MaxLimit + 1}
Pages == {MinPage - 1, 2}
CommentPrIds == {7}
Contents == {"hello"}

Next ==
    \/ \E source_branch \in Opt(Branches), pr_id \in Opt(PrIds),
          include_diff \in Opt(BOOLEAN) :
          get_pr_details(source_branch, pr_id, include_diff)
    \/ PrResponse
    \/ SearchResponse
    \/ CommitsResponse
    \/ DiffResponse
    \/ DiffNeverCompletes
    \/ \E state \in Opt(States), limit \in Opt(Limits), page \in Opt(Pages),
          target_branch \in Opt({"main"}) :
          list_pull_requests(state, limit, page, target_branch)
    \/ PullRequestsResponse
    \/ \E state \in Opt(PipelineStates), limit \in Opt(Limits), page \in Opt(Pages),
          target_branch \in Opt({"main"}) :
          list_pipelines(state, limit, page, target_branch)
    \/ PipelinesResponse
    \/ \E i \in DOMAIN pipelines : LookupResponse(i)
    \/ PipelinesReturn
    \/ Return

Spec == Init /\ [][Next]_vars

\* The comment tools and the consolidated-diff tool, against a remote that
\* may already hold a comment: add_pr_comment, with get_pr_comments and
\* get_pr_with_diff of the previous revision
InitPrevious ==
    /\ tool = "none"
    /\ args = NoArgs
    /\ pc = "idle"
    /\ fetches = <<>>
    /\ pr = NoPr
    /\ commitsData = <<>>
    /\ commits = <<>>
    /\ data = <<>>
    /\ pipelines = <<>>
    /\ completed = <<>>
    /\ result = NoResult
    /\ remote \in InitialStores
    /\ created = <<>>

ListedPrIds == {7, 8}
CommentLimits == {MinLimit - 1, MinLimit}

NextPrevious ==
    \/ \E source_branch \in Opt(Branches), pr_id \in Opt(PrIds),
          include_diff \in Opt(BOOLEAN) :
          get_pr_with_diff(source_branch, pr_id, include_diff)
    \/ PrByIdResponse
    \/ PrSearchResponse
    \/ WholeDiffResponse
    \/ \E pr_id \in ListedPrIds, limit \in Opt(CommentLimits) :
          get_pr_comments(pr_id, limit)
    \/ CommentsResponse
    \/ \E pr_id \in CommentPrIds, content \in Contents : add_pr_comment(pr_id, content)
    \/ CommentPostResponse
    \/ Return

SpecPrevious == InitPrevious /\ [][NextPrevious]_vars

----------------------------------------------------------------------------
(* Vocabulary of the properties *)

Supplied(arg) == arg # Undefined
Done(t) == tool = t /\ pc = "done"

\* The first request of the invocation was of this kind and ended this way
FirstFetch(kind, outcome) ==
    fetches # <<>> /\ fetches[1].kind = kind /\ fetches[1].outcome = outcome

\* The commit list of the pull request was fetched with a 2xx response
CommitsFetched ==
    \E k \in DOMAIN fetches : fetches[k].kind = "commits" /\ fetches[k].outcome = "ok"

\* The resolved pull request came with its source and destination branch
\* objects: building the returned record from it does not throw
PrHasBranches == "malformed" \in DOMAIN pr => pr.malformed # "noBranch"

\* The commit-list fetch failed, by status or by transport
CommitsFetchFailed ==
    \E k \in DOMAIN fetches :
        fetches[k].kind = "commits" /\ fetches[k].outcome \in {"http", "throw"}

\* How the diff request of the i-th commit of the list ended
DiffOutcome(i) ==
    LET k == CHOOSE k \in DOMAIN fetches :
                 fetches[k].kind = "diff" /\ fetches[k].key = <<commitsData[i].hash>>
    IN  fetches[k].outcome

Pow10(n) == 10 ^ n

\* The number written in decimal at positions a..b of a message
RECURSIVE Decimal(_, _, _)
Decimal(m, a, b) ==
    IF a > b THEN 0
    ELSE DigitValue(m[a]) * Pow10(b - a) + Decimal(m, a + 1, b)

\* The number after the first '#' that a decimal digit follows, or Null
FirstHashNumber(message) ==
    IF message = Undefined THEN Null
    ELSE LET m == message[1]
             starts == {i \in 1..(Len(m) - 1) : m[i] = "#" /\ m[i + 1] \in Digits}
         IN  IF starts = {} THEN Null
             ELSE LET first == CHOOSE i \in starts : \A j \in starts : i <= j
                      last == CHOOSE e \in (first + 1)..Len(m) :
                                 /\ \A k \in (first + 1)..e : m[k] \in Digits
                                 /\ e = Len(m) \/ m[e + 1] \notin Digits
                  IN  <<Decimal(m, first + 1, last)>>

\* The message the heuristic is specified on, for the k-th completed callback
ResolvedMessage(k) ==
    LET payload == data[completed[k].index].target.message
    IN  IF payload # Undefined /\ payload[1] # <<>> THEN payload
        ELSE IF completed[k].lookup = "ok" THEN completed[k].message
        ELSE Undefined

\* Every callback of the page has returned exactly once
AllCompleted ==
    /\ Len(completed) = Len(data)
    /\ \A i \in DOMAIN data : \E k \in DOMAIN completed : completed[k].index = i

----------------------------------------------------------------------------
(* C1: get_pr_details called with neither source_branch nor pr_id returns an
   error-flagged result and issues no remote request; called with exactly one
   of the two it issues the request that resolves the pull request. *)
C1_SelectorValidation ==
    tool = "get_pr_details" =>
        /\ (~Supplied(args.source_branch) /\ ~Supplied(args.pr_id)) =>
              (pc = "done" /\ IsError(result) /\ fetches = <<>>)
        /\ (Supplied(args.source_branch) # Supplied(args.pr_id)) =>
              (fetches # <<>> /\ fetches[1].kind \in {"pr_by_id", "search"})

(* C2: whenever pr_id is supplied to get_pr_details, with or without
   source_branch, the pull request is fetched directly by that id and no
   branch search is issued at any point. *)
C2_ByIdNeverSearches ==
    (tool = "get_pr_details" /\ Supplied(args.pr_id)) =>
        /\ \A k \in DOMAIN fetches : fetches[k].kind # "search"
        /\ fetches # <<>>
        /\ fetches[1].kind = "pr_by_id"
        /\ fetches[1].key = <<args.pr_id[1]>>

(* C3: when get_pr_details resolves by source_branch and the search succeeds
   with no match, the result has no error flag and its text names the queried
   branch. *)
C3_EmptySearchIsNotAnError ==
    (/\ Done("get_pr_details")
     /\ FirstFetch("search", "ok")
     /\ data = <<>>) =>
        /\ ~IsError(result)
        /\ result.kind = "text"
        /\ result.text = <<"No pull request found for source branch: ",
                           args.source_branch[1]>>
        /\ Len(fetches) = 1

C3_Witness ==
    /\ Done("get_pr_details")
    /\ FirstFetch("search", "ok")
    /\ data = <<>>
    /\ args.source_branch = Some("feature")

(* C4: with include_diff = true, whichever diff requests fail, every commit of
   the list is in the output in its place, a commit whose diff request failed
   carries an error description as its diff, every other commit carries the
   diff text returned for it, and the result has no error flag. *)
C4_DiffFailuresAreIsolated ==
    (/\ Done("get_pr_details")
     /\ args.include_diff = Some(TRUE)
     /\ CommitsFetched
     /\ PrHasBranches) =>
        /\ ~IsError(result)
        /\ result.kind = "json"
        /\ Len(result.pull_request.commits) = Len(commitsData)
        /\ \A i \in DOMAIN commitsData :
              LET c == result.pull_request.commits[i]
              IN  /\ c.hash = commitsData[i].hash
                  /\ "diff" \in DOMAIN c
                  /\ IF DiffOutcome(i) = "ok"
                     THEN c.diff = DiffText(commitsData[i].hash)
                     ELSE Len(c.diff) = 2 /\ c.diff[1] = "Error fetching diff: "

C4_Witness ==
    /\ Done("get_pr_details")
    /\ args.include_diff = Some(TRUE)
    /\ CommitsFetched
    /\ PrHasBranches
    /\ Len(commitsData) = 2
    /\ DiffOutcome(1) \in {"http", "throw"}
    /\ DiffOutcome(2) = "ok"
    /\ result.pull_request.commits[2].diff = DiffText(commitsData[2].hash)

(* C5: if the commit-list fetch of the resolved pull request fails, the
   operation is not aborted: the result has no error flag and holds the
   pull-request record with a commits list of exactly one placeholder element
   carrying the failure description. *)
C5_CommitListFailureDegrades ==
    (Done("get_pr_details") /\ CommitsFetchFailed) =>
        /\ ~IsError(result)
        /\ result.kind = "json"
        /\ result.pull_request.id = pr.id
        /\ Len(result.pull_request.commits) = 1
        /\ result.pull_request.commits[1][1] = "Error fetching commits: "

(* C6: with include_diff false or omitted, no diff request is issued and no
   commit record of the result has a diff field, not even a null one. *)
C6_NoDiffFieldUnlessRequested ==
    (tool = "get_pr_details" /\ ~(args.include_diff = Some(TRUE))) =>
        /\ \A k \in DOMAIN fetches : fetches[k].kind # "diff"
        /\ (pc = "done" /\ CommitsFetched /\ PrHasBranches) =>
              /\ result.kind = "json"
              /\ Len(result.pull_request.commits) = Len(commitsData)
              /\ \A i \in DOMAIN result.pull_request.commits :
                    "diff" \notin DOMAIN result.pull_request.commits[i]

C6_Witness ==
    /\ Done("get_pr_details")
    /\ args.include_diff = Undefined
    /\ CommitsFetched
    /\ PrHasBranches
    /\ Len(result.pull_request.commits) = 2

(* C7: in list_pipelines a pipeline whose commit-message lookup fails (non-2xx
   or transport error) is still returned, with no message and a null pr_id;
   every other pipeline is returned as if nothing had failed, and the result
   has no error flag. *)
C7_LookupFailureIsSwallowed ==
    (Done("list_pipelines") /\ FirstFetch("list_pipelines", "ok")) =>
        /\ ~IsError(result)
        /\ result.kind = "json"
        /\ Len(result.pipelines) = Len(data)
        /\ AllCompleted
        /\ \A k \in DOMAIN completed :
              LET i == completed[k].index
                  out == result.pipelines[i]
              IN  /\ out.run_number = data[i].run_number
                  /\ out.target.hash = data[i].target.hash
                  /\ completed[k].lookup \in {"http", "throw"} =>
                        /\ out.pr_id = Null
                        /\ out.target.message = Undefined
                              \/ out.target.message = Some(<<>>)
                  /\ completed[k].lookup = "none" =>
                        /\ out.target = data[i].target
                        /\ out.pr_id = FirstHashNumber(data[i].target.message)
                  /\ completed[k].lookup = "ok" =>
                        /\ out.target.message = completed[k].message
                        /\ out.pr_id = FirstHashNumber(completed[k].message)

C7_Witness ==
    /\ Done("list_pipelines")
    /\ Len(data) = 2
    /\ \E k \in DOMAIN completed :
          completed[k].index = 1 /\ completed[k].lookup \in {"http", "throw"}
    /\ \E k \in DOMAIN completed :
          completed[k].index = 2 /\ completed[k].lookup = "ok"
    /\ result.pipelines[1].pr_id = Null
    /\ result.pipelines[2].pr_id = <<42>>

(* C8: the pr_id of each output pipeline is the number written by the digits
   of the first '#' immediately followed by decimal digits in the pipeline's
   resolved commit message (the payload's message when present, otherwise the
   message of a successful lookup), and null when there is no resolved message
   or no such occurrence. *)
C8_PrIdIsFirstHashNumber ==
    (Done("list_pipelines") /\ result.kind = "json") =>
        /\ AllCompleted
        /\ \A k \in DOMAIN completed :
              result.pipelines[completed[k].index].pr_id
                  = FirstHashNumber(ResolvedMessage(k))

C8_Witness ==
    /\ Done("list_pipelines")
    /\ result.kind = "json"
    /\ Len(data) = 2
    /\ data[1].target.message = Some(<<"F", "i", "x", " ", "#", "4", "2">>)
    /\ result.pipelines[1].pr_id = <<42>>
    /\ data[2].target.message = Undefined
    /\ result.pipelines[2].target.message
          = Some(<<"#", "7", " ", "#", "1", "2", " ", "b">>)
    /\ result.pipelines[2].pr_id = <<7>>

(* C9: in both per-item batches the output has the length of the input and
   its i-th element comes from the i-th element the remote service returned,
   whatever the order in which the sub-fetches complete. *)
C9_OutputOrderIsInputOrder ==
    /\ (Done("list_pipelines") /\ result.kind = "json") =>
          /\ Len(result.pipelines) = Len(data)
          /\ \A i \in DOMAIN data :
                /\ result.pipelines[i].run_number = data[i].run_number
                /\ result.pipelines[i].target.hash = data[i].target.hash
    /\ (Done("get_pr_details") /\ CommitsFetched /\ PrHasBranches) =>
          /\ result.kind = "json"
          /\ Len(result.pull_request.commits) = Len(commitsData)
          /\ \A i \in DOMAIN commitsData :
                result.pull_request.commits[i].hash = commitsData[i].hash

C9_Witness ==
    /\ Done("list_pipelines")
    /\ result.kind = "json"
    /\ Len(completed) = 2
    /\ completed[1].index = 2
    /\ completed[2].index = 1
    /\ completed[1].lookup # "none"
    /\ completed[2].lookup # "none"

(* C10: list_pull_requests and list_pipelines never issue a request with a
   page size outside 1..100: a limit of 0 or 101 is rejected with an
   invalid-argument error before any request, a supplied limit is never
   replaced by another value, and an omitted limit gives the default (50 for
   pull requests, 10 for pipelines). *)
C10_PageSizeWithinBounds ==
    tool \in {"list_pull_requests", "list_pipelines"} =>
        /\ \A k \in DOMAIN fetches :
              fetches[k].kind \in {"list_prs", "list_pipelines"} =>
                 /\ fetches[k].key.pagelen \in 1..100
                 /\ fetches[k].key.pagelen =
                       IF Supplied(args.limit) THEN args.limit[1]
                       ELSE IF tool = "list_pull_requests" THEN 50 ELSE 10
        /\ (Supplied(args.limit) /\ args.limit[1] \notin 1..100) =>
              /\ pc = "done"
              /\ result.kind = "invalid_params"
              /\ IsError(result)
              /\ fetches = <<>>
        /\ (~Supplied(args.limit) /\ (~Supplied(args.page) \/ args.page[1] >= 1)) =>
              /\ fetches # <<>>
              /\ fetches[1].kind \in {"list_prs", "list_pipelines"}

C10_Witness ==
    /\ Done("list_pull_requests")
    /\ args.limit = Some(101)
    /\ result.kind = "invalid_params"
    /\ fetches = <<>>

\* Number of requests of the given kinds in the log
Count(kinds) == Cardinality({k \in DOMAIN fetches : fetches[k].kind \in kinds})

(* C11: in get_pr_details, when the fetch that resolves the pull request (by
   id, or the branch search) answers with a non-2xx status, the result is
   error-flagged, carries the status of the response, and no commit-list or
   diff request follows. *)
C11_PrimaryFailureAborts ==
    (/\ tool = "get_pr_details"
     /\ fetches # <<>>
     /\ fetches[1].outcome = "http") =>
        /\ pc = "done"
        /\ IsError(result)
        /\ result.text = <<"Error fetching PR with diff: ",
                           <<"Bitbucket API error: ", fetches[1].status>>>>
        /\ fetches[1].status \in HttpErrors
        /\ Len(fetches) = 1

C11_Witness ==
    /\ Done("get_pr_details")
    /\ FirstFetch("search", "http")
    /\ fetches[1].status = 404
    /\ IsError(result)

(* C17: when get_pr_details resolves by source_branch and the search returns
   several pull requests, the one used for the commit fetch and for the
   returned record is the first element of the remote result. *)
C17_FirstMatchIsUsed ==
    (/\ tool = "get_pr_details"
     /\ FirstFetch("search", "ok")
     /\ Len(data) >= 1) =>
        /\ pr = data[1]
        /\ Count({"commits"}) = 1
        /\ \A k \in DOMAIN fetches :
              fetches[k].kind = "commits" => fetches[k].key = <<data[1].id>>
        /\ (pc = "done" /\ result.kind = "json") =>
              result.pull_request.id = data[1].id

C17_Witness ==
    /\ Done("get_pr_details")
    /\ FirstFetch("search", "ok")
    /\ Len(data) = 2
    /\ data[1].id = 8
    /\ data[2].id = 7
    /\ result.kind = "json"
    /\ result.pull_request.id = 8

(* C18: no request is retried: within one invocation the resolving request,
   the commit list, each commit's diff, the pipeline list and each pipeline's
   commit lookup are issued at most once, also after a failure, so
   get_pr_details issues at most 2 + n requests for n commits and
   list_pipelines at most 1 + m requests for m pipelines. *)
C18_NoRetries ==
    /\ tool = "get_pr_details" =>
          /\ Count({"pr_by_id", "search"}) <= 1
          /\ Count({"commits"}) <= 1
          /\ \A j, k \in DOMAIN fetches :
                (fetches[j].kind = "diff" /\ fetches[k].kind = "diff"
                    /\ fetches[j].key = fetches[k].key) => j = k
          /\ Count({"diff"}) <= Len(commitsData)
          /\ Len(fetches) <= 2 + Len(commitsData)
    /\ tool = "list_pipelines" =>
          /\ Count({"list_pipelines"}) <= 1
          /\ Count({"commit"})
                <= Cardinality({i \in DOMAIN data :
                                   /\ data[i].target.hash # Undefined
                                   /\ data[i].target.message \in {Undefined, Some(<<>>)}})
          /\ Len(fetches) <= 1 + Len(data)
    /\ tool = "list_pull_requests" => Len(fetches) <= 1

C18_Witness ==
    /\ Done("get_pr_details")
    /\ Len(commitsData) = 2
    /\ Len(fetches) = 4
    /\ fetches[3].outcome \in {"http", "throw"}
    /\ fetches[4].outcome = "ok"

(* C20: every pull-request record returned by list_pull_requests or
   get_pr_details has source_branch and destination_branch; when the upstream
   record lacks a branch, or the name of a branch, the result is
   error-flagged instead. *)
C20_BranchesAlwaysPresent ==
    /\ (Done("list_pull_requests") /\ FirstFetch("list_prs", "ok")) =>
          IF \A i \in DOMAIN data : "source_branch" \in DOMAIN data[i]
          THEN /\ result.kind = "json"
               /\ \A i \in DOMAIN result.pull_requests :
                     {"source_branch", "destination_branch"}
                         \subseteq DOMAIN result.pull_requests[i]
          ELSE IsError(result)
    /\ (Done("get_pr_details") /\ pr # NoPr /\ ~CommitsFetchFailed) =>
          IF "source_branch" \in DOMAIN pr
          THEN /\ result.kind = "json"
               /\ {"source_branch", "destination_branch"}
                     \subseteq DOMAIN result.pull_request
          ELSE IsError(result)

(* C12: when the remote answers the add_pr_comment POST with a non-2xx
   status, the result is error-flagged, its text carries the status and the
   remote's response body as received, and no comment is reported created. *)
C12_PostFailureCarriesBody ==
    (Done("add_pr_comment") /\ FirstFetch("post_comment", "http")) =>
        /\ IsError(result)
        /\ result.text[1] = "Error adding PR comment: "
        /\ result.text[2] = <<"Bitbucket API error: ", fetches[1].status, " - ",
                              fetches[1].body>>
        /\ "comment" \notin DOMAIN result
        /\ \A k \in DOMAIN created : created[k].comment.id <= Len(remote)
        /\ Len(created) = Len(SelectSeq(remote, LAMBDA c : c.author = Account))

C12_Witness ==
    /\ Done("add_pr_comment")
    /\ FirstFetch("post_comment", "http")
    /\ fetches[1].body = "forbidden"
    /\ IsError(result)
    /\ created # <<>>

\* The comment listing was fetched with a 2xx response and returned
CommentsListed == Done("get_pr_comments") /\ FirstFetch("list_comments", "ok")

\* The positions of the listing that show the comment with this id
Listed(id) == {i \in DOMAIN result.comments : result.comments[i].id = id}

(* C13: a comment created by add_pr_comment(pr_id, text) and then read by the
   comment listing of the same pr_id appears exactly once, with the submitted
   text as content, the author reported at creation, and type 'general'. *)
C13_CreatedCommentIsListedOnce ==
    CommentsListed =>
        \A k \in DOMAIN created :
            created[k].pr_id = args.pr_id[1] =>
                /\ Cardinality(Listed(created[k].comment.id)) = 1
                /\ \A i \in Listed(created[k].comment.id) :
                      /\ result.comments[i].content = created[k].submitted
                      /\ result.comments[i].author = created[k].comment.author
                      /\ result.comments[i].type = "general"

\* The whole-PR diff was requested and the request failed
WholeDiffFailed ==
    \E k \in DOMAIN fetches :
        fetches[k].kind = "pr_diff" /\ fetches[k].outcome \in {"http", "throw"}

(* C14: in get_pr_with_diff, when the diff is requested and the whole-PR diff
   fetch fails, the result is not error-flagged: it is the pull-request
   record with the description of the failure as the text of its diff field. *)
C14_WholeDiffFailureIsEmbedded ==
    (Done("get_pr_with_diff") /\ WholeDiffFailed /\ PrHasBranches) =>
        /\ ~IsError(result)
        /\ result.kind = "json"
        /\ result.pull_request.diff # Null
        /\ result.pull_request.diff[1] = "Error fetching diff: "

(* C15: in the comment listing an output comment's inline anchor is populated,
   with the path, from and to of the remote record, exactly when the remote
   record carries inline metadata; otherwise it is null, never a zero-valued
   anchor. *)
C15_InlineAnchorIffRemoteInline ==
    CommentsListed =>
        /\ Len(result.comments) = Len(data)
        /\ \A i \in DOMAIN data :
              IF data[i].inline # Null
              THEN result.comments[i].inline =
                       Some([from |-> data[i].inline[1].from,
                             to |-> data[i].inline[1].to,
                             path |-> data[i].inline[1].path])
              ELSE result.comments[i].inline = Null

C15_Witness ==
    /\ CommentsListed
    /\ Len(result.comments) = 2
    /\ result.comments[1].inline # Null
    /\ result.comments[1].inline[1].path = "src/a.ts"
    /\ result.comments[2].inline = Null
    /\ data[2].inline = Null

\* A request of the invocation that the remote will never answer
Hung == \E k \in DOMAIN fetches : fetches[k].outcome = "never"

\* The invocation is suspended at an await whose request is still in flight
Suspended == \E k \in DOMAIN fetches : fetches[k].outcome = "pending"

\* The handler's outer catch, or the validation before it, produced the result
Failed ==
    /\ fetches # <<>>
    /\ \/ fetches[1].outcome \in {"http", "throw"}
       \/ \E k \in DOMAIN fetches :
             fetches[k].outcome = "throw" /\ fetches[k].kind \in {"commits", "pr_diff"}

(* C16: for every operation and every pattern of non-2xx answers and
   transport errors, the invocation ends with exactly one response returned
   by the handler, error-flagged when the operation failed; the handler never
   ends by throwing, and until it returns it is suspended at a request that
   is still in flight. *)
C16_AlwaysOneResponse ==
    /\ (pc = "done") <=> (result # NoResult)
    /\ pc = "done" => result.kind \in {"text", "json", "invalid_params"}
    /\ (pc = "done" /\ Failed) => IsError(result)
    /\ (pc \notin {"idle", "done"} /\ ~Hung) => (Suspended \/ ENABLED PipelinesReturn)
    /\ pc = "idle" => (tool = "none" /\ fetches = <<>>)

C16_Witness ==
    /\ Done("get_pr_details")
    /\ \E k \in DOMAIN fetches :
          k > 1 /\ fetches[k].kind = "commits" /\ fetches[k].outcome = "throw"
    /\ Failed
    /\ IsError(result)

(* C19: get_pr_details fetches the per-commit diffs one after another, and a
   bounded total timeout makes the invocation go on to its response even when
   a per-commit diff request never completes. *)
C19_HungDiffTimesOut ==
    /\ Count({"diff"}) > 0 =>
          Cardinality({k \in DOMAIN fetches :
                          fetches[k].kind = "diff"
                          /\ fetches[k].outcome \in {"pending", "never"}}) <= 1
    /\ (tool = "get_pr_details" /\ pc = "await_diff" /\ Hung) =>
          ENABLED (DiffResponse \/ Return)

\* A commit lookup was issued for the i-th pipeline of the page: its callback
\* still awaits it, or has returned after it
LookupIssued(i) ==
    \/ IsPending(pipelines[i])
    \/ \E k \in DOMAIN completed :
          completed[k].index = i /\ completed[k].lookup # "none"

(* C21: in list_pipelines a commit lookup is issued for a pipeline exactly
   when its payload carries no commit message and carries a commit hash; a
   pipeline whose payload includes the message triggers no lookup, and at most
   one lookup is issued per pipeline. *)
C21_LookupIffMessageAbsent ==
    (/\ tool = "list_pipelines"
     /\ FirstFetch("list_pipelines", "ok")
     /\ pc \in {"await_all", "done"}) =>
        /\ Len(pipelines) = Len(data)
        /\ \A i \in DOMAIN data :
              LookupIssued(i) <=> /\ data[i].target.message = Undefined
                                  /\ data[i].target.hash # Undefined
        /\ Count({"commit"}) = Cardinality({i \in DOMAIN data : LookupIssued(i)})

====
